---- MODULE Spec2Model ----
(***************************************************************************)
(* AddonReview: a review form with a locally persisted draft, a debounced  *)
(* autosave, an optimistic publication to shared application state and a   *)
(* remote submit (src/amo/components/AddonReview/index.js).                *)
(* ErrorPage: an error boundary that records a descendant's render error   *)
(* in shared state and renders a fallback for it (src/unnamed/part_000).   *)
(***************************************************************************)
EXTENDS Integers, Sequences, FiniteSets, TLC

VARIABLES
    props,        \* this.props.review, the review handed down by the parent
    shared,       \* the review held in shared application state
    state,        \* this.state, a record with the field reviewBody
    alive,        \* the component is mounted: its last render did not throw
    localState,   \* this.localState: [id, data]; data is <<>> or <<snapshot>>
    loadPc,       \* the load issued at construction: "pending" or "done"
    loadResult,   \* what localState.load() resolved with: <<>> or <<snapshot>>
    timers,       \* pending debounced saves, oldest first: [remaining, arg]
    sinceInput,   \* ms since the last onBodyInput, capped at DebounceWait
    inputs,       \* number of onBodyInput events so far
    unsubmittedInput, \* an onBodyInput has happened since the last onSubmit
    windows,      \* number of debounce windows opened so far
    saveCalls,    \* number of localState.save() calls
    inflight,     \* updateReviewText calls awaiting their completion
    submits,      \* number of onSubmit events so far
    succeeded,    \* number of updateReviewText calls that resolved
    failed,       \* number of updateReviewText calls that rejected
    submittedCalls, \* number of onReviewSubmitted() calls
    clearCalls,   \* number of localState.clear() calls
    refreshCalls, \* number of refreshAddon() calls
    errorShown,   \* errorHandler.renderErrorIfPresent() has an error to show
    lastCalls,    \* collaborator calls made by the last step, in call order
    errorPage,    \* ErrorPage: state.errorPage, <<>> when there is none
    children,     \* ErrorPage: what rendering props.children does
    output,       \* ErrorPage: what the last render() returned
    thrown,       \* ErrorPage: <<>> or <<error>> thrown below, not yet caught
    catches,      \* ErrorPage: number of componentDidCatch calls
    dispatches,   \* ErrorPage: number of loadErrorPage actions dispatched
    resets        \* ErrorPage: number of resets of state.errorPage

reviewVars ==
    <<props, shared, state, alive, localState, loadPc, loadResult, timers,
      sinceInput, inputs, unsubmittedInput, windows, saveCalls, inflight,
      submits, succeeded, failed, submittedCalls, clearCalls, refreshCalls,
      errorShown, lastCalls>>

errorPageVars ==
    <<errorPage, children, output, thrown, catches, dispatches, resets>>

vars == <<reviewVars, errorPageVars>>

\* ---- bounds -------------------------------------------------------------
MaxInputs == 2
MaxSubmits == 1
\* ... and of the specification of repeated submits.
MaxResubmitInputs == 1
MaxResubmits == 2

\* ---- values -------------------------------------------------------------
\* JavaScript's undefined, for a string-valued field.
UNDEFINED == "<undefined>"

\* withErrorHandler({ name: 'AddonReview' })
ErrorHandlerName == "AddonReview"

\* The wait handed to debounce().
DebounceWait == 800

\* Values event.target.value takes; "" is the emptied textarea.
InputValues == {"", "great addon"}

InitialBodies == {"old"}
StoredBodies == {"stored"}
SelectableRatings == {1}
ReviewIds == {"r1", UNDEFINED}
AddonIds == {"addon7", UNDEFINED}
AddonSlugs == {"some-addon", UNDEFINED}

InitialRatings == {5}

\* The reviews the parent may construct the form with.
InitialReviews ==
    [id : ReviewIds, addonId : AddonIds, addonSlug : AddonSlugs,
     rating : InitialRatings, body : InitialBodies]

\* Time advances in steps of half a debounce wait or a whole one.
TimeSteps == {DebounceWait \div 2, DebounceWait}

\* ---- pure helpers -------------------------------------------------------
\* `reviewBody || undefined`
OrUndefined(body) == IF body \in {"", UNDEFINED} THEN UNDEFINED ELSE body

\* `AddonReview:${props.review.id}`
LocalStateId(review) == <<"AddonReview", review.id>>

\* Mutant: the guard forgets the slug.
RenderThrowsOnIdOnly(review) == review.id = UNDEFINED

\* The guard at the top of render(): it throws on a review without id or slug.
RenderThrows(review) == review.id = UNDEFINED \/ review.addonSlug = UNDEFINED

\* React's setState: merge the partial state; a no-op once unmounted.
SetState(partial) == IF alive THEN partial @@ state ELSE state

\* What render() shows: the textarea's value and the review of UserRating.
RenderedBody == state.reviewBody
RenderedRating == props.rating

\* ---- LocalState (core/localState) ---------------------------------------
LocalLoad(ls) == ls.data
LocalSave(ls, snapshot) == [ls EXCEPT !.data = <<snapshot>>]
LocalClear(ls) == [ls EXCEPT !.data = <<>>]

\* Snapshots an earlier session of this form may have left behind.
StoredSnapshots == {<<>>} \cup {<<[reviewBody |-> b]>> : b \in StoredBodies}

\* ---- remote review API (amo/api/reviews) --------------------------------
\* The review the remote update resolves with: the submitted one, confirmed.
RemoteReview(req) ==
    [id |-> req.params.reviewId, addonId |-> req.params.addonId,
     addonSlug |-> req.addonSlug, rating |-> req.params.rating,
     body |-> req.params.body]

\* A rejected API call records its error on the errorHandler it was given.
ErrorHandlerCapture(req) == req.params.errorHandler = ErrorHandlerName

\* ---- construction -------------------------------------------------------
\* constructor: seed state from props.review, create the LocalState for the
\* review id and issue the load; the first render follows.
constructor ==
    /\ props \in InitialReviews
    /\ shared = props
    /\ state = [reviewBody |-> props.body]
    /\ alive = ~RenderThrows(props)
    /\ \E snap \in StoredSnapshots :
           localState = [id |-> LocalStateId(props), data |-> snap]
    /\ loadPc = "pending"
    /\ loadResult = LocalLoad(localState)
    /\ timers = <<>>
    /\ sinceInput = DebounceWait
    /\ inputs = 0
    /\ unsubmittedInput = FALSE
    /\ windows = 0
    /\ saveCalls = 0
    /\ inflight = {}
    /\ submits = 0
    /\ succeeded = 0
    /\ failed = 0
    /\ submittedCalls = 0
    /\ clearCalls = 0
    /\ refreshCalls = 0
    /\ errorShown = FALSE
    /\ lastCalls = <<"localState.load">>

\* ---- checkForStoredState ------------------------------------------------
\* The then-callback of the load issued by the constructor: apply the stored
\* state, if the load found one.
\* Mutant: the stored state is found but never applied.
StoredStateIgnored(storedState) == state

\* Mutant: a stored state is applied only while nothing has been typed.
StoredStateUnlessEdited(storedState) ==
    IF storedState # <<>> /\ inputs = 0 THEN SetState(storedState[1])
                                         ELSE state

\* `if (storedState) { this.setState(storedState); }`
StoredStateApplied(storedState) ==
    IF storedState # <<>> THEN SetState(storedState[1]) ELSE state

checkForStoredState ==
    /\ loadPc = "pending"
    /\ loadPc' = "done"
    /\ state' = StoredStateApplied(loadResult)
    /\ lastCalls' = <<>>
    /\ UNCHANGED <<props, shared, alive, localState, loadResult, timers,
                   sinceInput, inputs, unsubmittedInput, windows, saveCalls,
                   inflight, submits, succeeded, failed, submittedCalls,
                   clearCalls, refreshCalls, errorShown>>
    /\ UNCHANGED errorPageVars

\* ---- componentWillReceiveProps ------------------------------------------
\* Mutant: the body of the new review is taken only when none is in memory.
ReceivedStateIfEmpty(review) ==
    IF state.reviewBody \in {"", UNDEFINED}
    THEN SetState([reviewBody |-> review.body]) ELSE state

\* Mutant: a props update clears the body in memory.
ReceivedStateCleared(review) == SetState([reviewBody |-> UNDEFINED])

\* `if (review) { this.setState({ reviewBody: review.body }); }`
ReceivedState(review) == SetState([reviewBody |-> review.body])

\* The parent re-renders with the review now in shared state; render follows.
componentWillReceiveProps ==
    /\ alive
    /\ props' = shared
    /\ state' = ReceivedState(shared)
    /\ alive' = ~RenderThrows(shared)
    /\ lastCalls' = <<>>
    /\ UNCHANGED <<shared, localState, loadPc, loadResult, timers, sinceInput,
                   inputs, unsubmittedInput, windows, saveCalls, inflight,
                   submits, succeeded, failed, submittedCalls, clearCalls,
                   refreshCalls, errorShown>>
    /\ UNCHANGED errorPageVars

\* ---- onBodyInput --------------------------------------------------------
\* What one onBodyInput does to the pending saves: it builds a debounced
\* function of its own and calls it once, which starts a timer of its own.
ScheduleSave(pending, newState) ==
    Append(pending, [remaining |-> DebounceWait, arg |-> newState])

onBodyInputWithin(limit, value) ==
    LET newState == [reviewBody |-> value] IN
    /\ alive
    /\ inputs < limit
    /\ timers' = ScheduleSave(timers, newState)
    /\ state' = SetState(newState)
    /\ windows' = IF sinceInput >= DebounceWait THEN windows + 1 ELSE windows
    /\ sinceInput' = 0
    /\ inputs' = inputs + 1
    /\ unsubmittedInput' = TRUE
    /\ lastCalls' = <<"debounce">>
    /\ UNCHANGED <<props, shared, alive, localState, loadPc, loadResult,
                   saveCalls, inflight, submits, succeeded, failed,
                   submittedCalls, clearCalls, refreshCalls, errorShown>>
    /\ UNCHANGED errorPageVars

onBodyInput(value) == onBodyInputWithin(MaxInputs, value)

\* Time passes, but never past a timer that is due.
Tick(d) ==
    /\ \A i \in DOMAIN timers : timers[i].remaining >= d
    /\ timers # <<>> \/ sinceInput < DebounceWait
    /\ timers' = [i \in DOMAIN timers |->
                     [timers[i] EXCEPT !.remaining = @ - d]]
    /\ sinceInput' = IF sinceInput + d < DebounceWait THEN sinceInput + d
                                                     ELSE DebounceWait
    /\ lastCalls' = <<>>
    /\ UNCHANGED <<props, shared, state, alive, localState, loadPc,
                   loadResult, inputs, unsubmittedInput, windows, saveCalls,
                   inflight, submits, succeeded, failed, submittedCalls,
                   clearCalls, refreshCalls, errorShown>>
    /\ UNCHANGED errorPageVars

\* Mutant: the callback saves this.state as it is when the timer fires.
SavedAtFlush(pending) == state

\* The state the due callback was called with (its `state` argument).
SavedArgument(pending) == Head(pending).arg

\* Mutant: the callback checks that the component is still mounted.
saveStateIfMounted ==
    /\ alive
    /\ timers # <<>>
    /\ Head(timers).remaining = 0
    /\ localState' = LocalSave(localState, SavedArgument(timers))
    /\ timers' = Tail(timers)
    /\ saveCalls' = saveCalls + 1
    /\ lastCalls' = <<"localState.save">>
    /\ UNCHANGED <<props, shared, state, alive, loadPc, loadResult,
                   sinceInput, inputs, unsubmittedInput, windows, inflight,
                   submits, succeeded, failed, submittedCalls, clearCalls,
                   refreshCalls, errorShown>>
    /\ UNCHANGED errorPageVars

\* The callback handed to debounce(): save the state it was called with.
saveState ==
    /\ timers # <<>>
    /\ Head(timers).remaining = 0
    /\ localState' = LocalSave(localState, SavedArgument(timers))
    /\ timers' = Tail(timers)
    /\ saveCalls' = saveCalls + 1
    /\ lastCalls' = <<"localState.save">>
    /\ UNCHANGED <<props, shared, state, alive, loadPc, loadResult,
                   sinceInput, inputs, unsubmittedInput, windows, inflight,
                   submits, succeeded, failed, submittedCalls, clearCalls,
                   refreshCalls, errorShown>>
    /\ UNCHANGED errorPageVars

\* ---- onSelectRating -----------------------------------------------------
\* Mutant: the body in memory is left out of the published review.
SelectedReviewSansBody(review, reviewBody, rating) ==
    [review EXCEPT !.rating = rating]

\* Mutant: the selected rating is left out of the published review.
SelectedReviewSansRating(review, reviewBody, rating) ==
    [review EXCEPT !.body = OrUndefined(reviewBody)]

\* { ...this.props.review, body: this.state.reviewBody || undefined, rating }
SelectedReview(review, reviewBody, rating) ==
    [review EXCEPT !.body = OrUndefined(reviewBody), !.rating = rating]

onSelectRating(rating) ==
    /\ alive
    /\ shared' = SelectedReview(props, state.reviewBody, rating)
    /\ lastCalls' = <<"setDenormalizedReview">>
    /\ UNCHANGED <<props, state, alive, localState, loadPc, loadResult,
                   timers, sinceInput, inputs, unsubmittedInput, windows,
                   saveCalls, inflight, submits, succeeded, failed,
                   submittedCalls, clearCalls, refreshCalls, errorShown>>
    /\ UNCHANGED errorPageVars

\* ---- onSubmit -----------------------------------------------------------
\* Mutant: the review is published as it came in, without the typed body.
UpdatedReviewStale(review, reviewBody) == review

\* updatedReview = { ...review, ...newReviewParams }
UpdatedReview(review, reviewBody) ==
    [review EXCEPT !.body = OrUndefined(reviewBody)]

\* Mutant: the body sent is the one of props.review, not the typed one.
SubmitParamsFromProps(review, reviewBody) ==
    [addonId |-> review.addonId, errorHandler |-> ErrorHandlerName,
     rating |-> review.rating, reviewId |-> review.id,
     body |-> OrUndefined(review.body)]

\* params = { addonId, errorHandler, rating, reviewId, ...newReviewParams }
SubmitParams(review, reviewBody) ==
    [addonId |-> review.addonId, errorHandler |-> ErrorHandlerName,
     rating |-> review.rating, reviewId |-> review.id,
     body |-> OrUndefined(reviewBody)]

\* The collaborator calls of the synchronous part of onSubmit, in order.
SubmitCalls == <<"setDenormalizedReview", "updateReviewText">>

\* A call in flight is kept with its number, its params, the slug its
\* then-callback refreshes and the number of inputs made before it.
onSubmitWithin(limit) ==
    /\ alive
    /\ submits < limit
    /\ shared' = UpdatedReview(props, state.reviewBody)
    /\ inflight' = inflight \cup
           {[n |-> submits + 1,
             params |-> SubmitParams(props, state.reviewBody),
             addonSlug |-> props.addonSlug,
             inputs |-> inputs]}
    /\ submits' = submits + 1
    /\ unsubmittedInput' = FALSE
    /\ lastCalls' = SubmitCalls
    /\ UNCHANGED <<props, state, alive, localState, loadPc, loadResult,
                   timers, sinceInput, inputs, windows, saveCalls, succeeded,
                   failed, submittedCalls, clearCalls, refreshCalls,
                   errorShown>>
    /\ UNCHANGED errorPageVars

onSubmit == onSubmitWithin(MaxSubmits)

\* The three calls of the Promise.all in the then-callback, in order.
SuccessCalls == <<"onReviewSubmitted", "localState.clear", "refreshAddon">>

\* Mutant: the then-callback forgets localState.clear().
SubmitResolvedNoClear(req) ==
    /\ req \in inflight
    /\ inflight' = inflight \ {req}
    /\ shared' = RemoteReview(req)
    /\ succeeded' = succeeded + 1
    /\ submittedCalls' = submittedCalls + 1
    /\ refreshCalls' = refreshCalls + 1
    /\ lastCalls' = <<"onReviewSubmitted", "refreshAddon">>
    /\ UNCHANGED <<props, state, alive, localState, loadPc, loadResult,
                   timers, sinceInput, inputs, unsubmittedInput, windows,
                   saveCalls, submits, failed, clearCalls, errorShown>>
    /\ UNCHANGED errorPageVars

\* updateReviewText resolved: the confirmed review is dispatched, then the
\* then-callback of onSubmit runs.
SubmitResolved(req) ==
    /\ req \in inflight
    /\ inflight' = inflight \ {req}
    /\ shared' = RemoteReview(req)
    /\ succeeded' = succeeded + 1
    /\ submittedCalls' = submittedCalls + 1
    /\ localState' = LocalClear(localState)
    /\ clearCalls' = clearCalls + 1
    /\ refreshCalls' = refreshCalls + 1
    /\ lastCalls' = SuccessCalls
    /\ UNCHANGED <<props, state, alive, loadPc, loadResult, timers,
                   sinceInput, inputs, unsubmittedInput, windows, saveCalls,
                   submits, failed, errorShown>>
    /\ UNCHANGED errorPageVars

\* Mutant: the callback is attached for rejection too (then(cb, cb)).
SubmitRejectedRunsCallback(req) ==
    /\ req \in inflight
    /\ inflight' = inflight \ {req}
    /\ failed' = failed + 1
    /\ errorShown' = (errorShown \/ ErrorHandlerCapture(req))
    /\ submittedCalls' = submittedCalls + 1
    /\ localState' = LocalClear(localState)
    /\ clearCalls' = clearCalls + 1
    /\ refreshCalls' = refreshCalls + 1
    /\ lastCalls' = SuccessCalls
    /\ UNCHANGED <<props, shared, state, alive, loadPc, loadResult, timers,
                   sinceInput, inputs, unsubmittedInput, windows, saveCalls,
                   submits, succeeded>>
    /\ UNCHANGED errorPageVars

\* updateReviewText rejected: onSubmit attaches no rejection handler, so
\* nothing of the then-callback runs; the errorHandler has the error.
SubmitRejected(req) ==
    /\ req \in inflight
    /\ inflight' = inflight \ {req}
    /\ failed' = failed + 1
    /\ errorShown' = (errorShown \/ ErrorHandlerCapture(req))
    /\ lastCalls' = <<>>
    /\ UNCHANGED <<props, shared, state, alive, localState, loadPc,
                   loadResult, timers, sinceInput, inputs, unsubmittedInput,
                   windows, saveCalls, submits, succeeded, submittedCalls,
                   clearCalls, refreshCalls>>
    /\ UNCHANGED errorPageVars

\* componentWillUnmount is not defined: teardown drops the component and
\* touches neither the timers, nor the load, nor the calls in flight.
Unmount ==
    /\ alive
    /\ alive' = FALSE
    /\ lastCalls' = <<>>
    /\ UNCHANGED <<props, shared, state, localState, loadPc, loadResult,
                   timers, sinceInput, inputs, unsubmittedInput, windows,
                   saveCalls, inflight, submits, succeeded, failed,
                   submittedCalls, clearCalls, refreshCalls, errorShown>>
    /\ UNCHANGED errorPageVars

\* ========================================================================
\* ErrorPage
\* ========================================================================
MaxResets == 2

\* error.response.status of the errors a descendant may throw; 0: none.
ErrorStatuses == {0, 401, 404, 500}
Errors == [status : ErrorStatuses]

\* props.children either render (<<>>) or throw an error (<<error>>).
ChildrenKinds == {<<>>} \cup {<<e>> : e \in Errors}

\* ---- errorPage reducer (core/reducers/errorPage) ------------------------
DefaultStatusCode == 500
NoStatusCode == 0
InitialErrorPageState ==
    [hasError |-> FALSE, error |-> <<>>, statusCode |-> NoStatusCode]

\* loadErrorPage({ error }): record the error and its status code.
LoadErrorPage(error) ==
    [hasError |-> TRUE, error |-> <<error>>,
     statusCode |-> IF error.status # 0 THEN error.status
                                        ELSE DefaultStatusCode]

\* ---- getErrorComponent (core/utils) -------------------------------------
getErrorComponent(statusCode) ==
    CASE statusCode = 401 -> "NotAuthorized"
      [] statusCode = 404 -> "NotFound"
      [] OTHER -> "ServerError"

\* ---- ErrorPageBase ------------------------------------------------------
\* defaultProps.errorPage: `{}`, an object without any field.
DefaultErrorPage == [field \in {} |-> FALSE]

\* mapStateToProps and defaultProps: the errorPage the component sees.
ErrorPageProp(slice) == IF slice = <<>> THEN DefaultErrorPage ELSE slice[1]

\* `errorPage.hasError`, undefined counting as false.
HasError(page) == "hasError" \in DOMAIN page /\ page.hasError

\* What render() returns: the fallback element or props.children.
ChildrenOutput == [component |-> "children", error |-> <<>>, status |-> 0]

\* Mutant: the fallback is picked without looking at the status code.
RenderOutputAnyStatus(page) ==
    IF HasError(page)
    THEN [component |-> getErrorComponent(DefaultStatusCode),
          error |-> page.error, status |-> page.statusCode]
    ELSE ChildrenOutput

RenderOutput(page) ==
    IF HasError(page)
    THEN [component |-> getErrorComponent(page.statusCode),
          error |-> page.error, status |-> page.statusCode]
    ELSE ChildrenOutput

\* Mutant: render() returns the children next to the fallback, so a child
\* that throws keeps throwing.
ErrorPageRenderKeepsChildren ==
    /\ thrown = <<>>
    /\ output' = RenderOutput(ErrorPageProp(errorPage))
    /\ thrown' = children
    /\ UNCHANGED <<errorPage, children, catches, dispatches, resets>>
    /\ UNCHANGED reviewVars

\* Mutant: once the fallback is rendered the recorded error is cleared.
ErrorPageRenderClearsError ==
    /\ thrown = <<>>
    /\ output' = RenderOutput(ErrorPageProp(errorPage))
    /\ thrown' = IF HasError(ErrorPageProp(errorPage)) THEN <<>> ELSE children
    /\ errorPage' = IF HasError(ErrorPageProp(errorPage))
                    THEN <<InitialErrorPageState>> ELSE errorPage
    /\ UNCHANGED <<children, catches, dispatches, resets>>
    /\ UNCHANGED reviewVars

\* render(); rendering the returned children may throw below the boundary.
ErrorPageRender ==
    /\ thrown = <<>>
    /\ output' = RenderOutput(ErrorPageProp(errorPage))
    /\ thrown' = IF HasError(ErrorPageProp(errorPage)) THEN <<>> ELSE children
    /\ UNCHANGED <<errorPage, children, catches, dispatches, resets>>
    /\ UNCHANGED reviewVars

\* componentDidCatch(error, info): dispatch(loadErrorPage({ error })).
componentDidCatch ==
    /\ thrown # <<>>
    /\ errorPage' = <<LoadErrorPage(thrown[1])>>
    /\ thrown' = <<>>
    /\ catches' = catches + 1
    /\ dispatches' = dispatches + 1
    /\ UNCHANGED <<children, output, resets>>
    /\ UNCHANGED reviewVars

\* Outside the boundary: a route change resets state.errorPage and hands
\* the boundary new children.
ErrorPageReset(newChildren) ==
    /\ thrown = <<>>
    /\ resets < MaxResets
    /\ errorPage' = <<InitialErrorPageState>>
    /\ children' = newChildren
    /\ resets' = resets + 1
    /\ UNCHANGED <<output, thrown, catches, dispatches>>
    /\ UNCHANGED reviewVars

\* The boundary as mounted, before its first render.
ErrorPageMounted ==
    /\ errorPage \in {<<>>, <<InitialErrorPageState>>}
    /\ children \in ChildrenKinds
    /\ output = ChildrenOutput
    /\ thrown = <<>>
    /\ catches = 0
    /\ dispatches = 0
    /\ resets = 0

\* No boundary around the form.
ErrorPageAbsent ==
    /\ errorPage = <<>>
    /\ children = <<>>
    /\ output = ChildrenOutput
    /\ thrown = <<>>
    /\ catches = 0
    /\ dispatches = 0
    /\ resets = 0

\* ========================================================================
\* Specifications
\* ========================================================================
\* The review form on its own.
Init == constructor /\ ErrorPageAbsent

Next ==
    \/ checkForStoredState
    \/ componentWillReceiveProps
    \/ \E value \in InputValues : onBodyInput(value)
    \/ \E d \in TimeSteps : Tick(d)
    \/ saveState
    \/ \E rating \in SelectableRatings : onSelectRating(rating)
    \/ onSubmit
    \/ \E req \in inflight : SubmitResolved(req)
    \/ \E req \in inflight : SubmitRejected(req)
    \/ Unmount

Spec == Init /\ [][Next]_vars

\* The review form submitted more than once, after fewer inputs.
NextResubmit ==
    \/ checkForStoredState
    \/ componentWillReceiveProps
    \/ \E value \in InputValues : onBodyInputWithin(MaxResubmitInputs, value)
    \/ \E d \in TimeSteps : Tick(d)
    \/ saveState
    \/ \E rating \in SelectableRatings : onSelectRating(rating)
    \/ onSubmitWithin(MaxResubmits)
    \/ \E req \in inflight : SubmitResolved(req)
    \/ \E req \in inflight : SubmitRejected(req)

SpecResubmit == Init /\ [][NextResubmit]_vars

\* The error boundary on its own, around content other than the form.
FormAbsent ==
    /\ constructor
    /\ props.id = UNDEFINED /\ props.addonId = UNDEFINED
    /\ props.addonSlug = UNDEFINED
    /\ localState.data = <<>>

InitErrorPage == ErrorPageMounted /\ FormAbsent

NextErrorPage ==
    \/ ErrorPageRender
    \/ componentDidCatch
    \/ \E newChildren \in ChildrenKinds : ErrorPageReset(newChildren)

SpecErrorPage == InitErrorPage /\ [][NextErrorPage]_vars

\* ========================================================================
\* Properties
\* ========================================================================

\* The steps the properties speak about, recognised by what they count.
IsSave == saveCalls' = saveCalls + 1
IsSubmit == submits' = submits + 1
IsResolved == succeeded' = succeeded + 1
IsRejected == failed' = failed + 1
IsLoadApplied == loadPc = "pending" /\ loadPc' = "done"
IsPublication ==
    lastCalls' \in {<<"setDenormalizedReview">>,
                    <<"setDenormalizedReview", "updateReviewText">>}

\* Nothing asynchronous is left to run.
Quiescent == timers = <<>> /\ inflight = {} /\ loadPc = "done"

\* C1: body edits that all fall into one debounce window (each less than
\* 800ms after the previous one) lead to exactly one save: at most one save
\* is ever pending, and once the window has gone idle exactly one save has
\* been executed and the store holds the body of the last edit.
C1_OneSavePerWindow ==
    windows = 1 =>
        /\ Len(timers) <= 1
        /\ timers = <<>> => saveCalls = 1

\* C2 (as stated): when the load completion applies a stored draft, the
\* rendered body and the rendered rating are those of the stored draft.
C2_StoredBodyAndRating ==
    [][(IsLoadApplied /\ alive /\ loadResult # <<>>) =>
          /\ RenderedBody' = loadResult[1].reviewBody
          /\ "rating" \in DOMAIN loadResult[1]
          /\ RenderedRating' = loadResult[1].rating]_vars

\* C2 (amended): when the load completion applies a stored draft, the
\* rendered body is the stored body; the stored snapshot holds a body only,
\* and the rendered rating stays that of the review in props.
C2_StoredBodyApplied ==
    [][(IsLoadApplied /\ alive /\ loadResult # <<>>) =>
          /\ RenderedBody' = loadResult[1].reviewBody
          /\ DOMAIN loadResult[1] = {"reviewBody"}
          /\ RenderedRating' = RenderedRating]_vars

C2_Witness ==
    /\ alive /\ loadPc = "done" /\ loadResult # <<>>
    /\ RenderedBody = "stored" /\ props.body = "old" /\ inputs = 0

\* C3: every resolved submit calls onReviewSubmitted, localState.clear and
\* refreshAddon exactly once each, in its then-callback and in no other
\* step: the three call counts always equal the number of resolved submits.
C3_OncePerResolvedSubmit ==
    /\ submittedCalls = succeeded
    /\ clearCalls = succeeded
    /\ refreshCalls = succeeded
    /\ (\E i \in DOMAIN lastCalls : lastCalls[i] = "localState.clear") =>
           succeeded >= 1

C3_Witness ==
    /\ succeeded = 1 /\ inflight = {}
    /\ submittedCalls = 1 /\ clearCalls = 1 /\ refreshCalls = 1
    /\ lastCalls = <<"onReviewSubmitted", "localState.clear", "refreshAddon">>

\* C4: a rejected submit calls neither localState.clear nor
\* onReviewSubmitted nor refreshAddon, leaves the stored draft in the store,
\* and its error is there for renderErrorIfPresent to show.
C4_RejectedSubmitKeepsDraft ==
    [][IsRejected =>
          /\ clearCalls' = clearCalls
          /\ submittedCalls' = submittedCalls
          /\ refreshCalls' = refreshCalls
          /\ localState' = localState
          /\ errorShown']_vars

C4_Witness ==
    /\ failed = 1 /\ errorShown /\ clearCalls = 0 /\ submittedCalls = 0
    /\ refreshCalls = 0 /\ localState.data = <<[reviewBody |-> "great addon"]>>

\* C5: after a resolved submit with no body edit since the submit was
\* issued, once every timer and completion has run, the store holds no
\* entry for the draft.
C5_StoreEmptyAfterSubmit ==
    (Quiescent /\ succeeded >= 1 /\ failed = 0 /\ ~unsubmittedInput) =>
        localState.data = <<>>

\* C6: a rating selection publishes the review with the selected rating in
\* the selecting step itself, whatever timers and remote calls are pending,
\* and issues no remote call and starts no timer.
C6_RatingPublishedAtOnce ==
    [][lastCalls' = <<"setDenormalizedReview">> =>
          /\ shared'.rating \in SelectableRatings
          /\ shared'.id = props.id
          /\ inflight' = inflight
          /\ submits' = submits
          /\ timers' = timers]_vars

C6_Witness ==
    /\ lastCalls = <<"setDenormalizedReview">>
    /\ shared.rating = 1 /\ props.rating = 5
    /\ timers # <<>> /\ inflight # {}

\* C7 (as stated): while a remote update call is in flight, the shared
\* review is the optimistic review that call's submit published.
C7_OptimisticStaysPublished ==
    \A req \in inflight :
        /\ shared.id = req.params.reviewId
        /\ shared.body = req.params.body
        /\ shared.rating = req.params.rating

\* C7 (amended): a submit publishes the props review overlaid with the
\* typed body before it invokes the remote call; while a call is in flight
\* the shared review changes only through a later publication (a rating
\* selection or another submit) or the confirmed review of a resolved call.
C7_OptimisticPublishedFirst ==
    [][/\ IsSubmit =>
            /\ lastCalls' = <<"setDenormalizedReview", "updateReviewText">>
            /\ shared' = [props EXCEPT
                             !.body = OrUndefined(state.reviewBody)]
            /\ inflight' # inflight
       /\ (inflight # {} /\ shared' # shared) =>
            (IsPublication \/ IsResolved)]_vars

C7_Witness ==
    /\ inflight # {} /\ lastCalls = <<>>
    /\ shared.body = "great addon" /\ props.body = "old"
    /\ \A req \in inflight : req.params.body = shared.body

\* C8 (as stated): on a review whose id or addon reference (addonId,
\* addonSlug) is missing, no submit goes through: none publishes the
\* optimistic review and none issues a remote call.
C8_NoSubmitWithoutIdentity ==
    [][(props.id = UNDEFINED \/ props.addonId = UNDEFINED
            \/ props.addonSlug = UNDEFINED) =>
          (~IsSubmit /\ inflight' \subseteq inflight)]_vars

\* C8 (amended): a review whose id or addonSlug is missing makes render
\* throw, so the form is not mounted and no step publishes a review or
\* issues a remote call for it. onSubmit validates no field of the review.
C8_NoSubmitWithoutIdOrSlug ==
    [][(props.id = UNDEFINED \/ props.addonSlug = UNDEFINED) =>
          /\ ~alive /\ ~alive'
          /\ inflight' \subseteq inflight
          /\ submits' = submits
          /\ ~IsPublication
          /\ shared' = shared]_vars

C8_Witness ==
    /\ props.addonSlug = UNDEFINED /\ props.id # UNDEFINED
    /\ ~alive /\ loadPc = "done" /\ submits = 0 /\ shared = props

\* C9 (as stated): the remote call of a submit carries the review id, the
\* addon id and the in-memory body as it is.
C9_CallCarriesBody ==
    [][IsSubmit =>
          \E req \in inflight' \ inflight :
              /\ req.params.reviewId = props.id
              /\ req.params.addonId = props.addonId
              /\ req.params.body = state.reviewBody]_vars

\* C9 (amended): the remote call of a submit carries the review id, the
\* addon id and the in-memory body, an empty body being sent as undefined;
\* it is the in-memory body whether or not a debounced save has stored it.
C9_CallCarriesBodyOrUndefined ==
    [][IsSubmit =>
          \E req \in inflight' \ inflight :
              /\ req.params.reviewId = props.id
              /\ req.params.addonId = props.addonId
              /\ req.params.body =
                     (IF state.reviewBody = "" THEN UNDEFINED
                                               ELSE state.reviewBody)]_vars

C9_Witness ==
    /\ timers # <<>> /\ localState.data = <<>> /\ props.body = "old"
    /\ \E req \in inflight : req.params.body = "great addon"

\* C10 (as stated): the snapshot a debounced save writes is the full draft
\* at flush time: the review id, the in-memory body and the rating.
C10_FullDraftSaved ==
    [][IsSave =>
          /\ Len(localState'.data) = 1
          /\ {"id", "rating"} \subseteq DOMAIN localState'.data[1]
          /\ localState'.data[1].reviewBody = state.reviewBody]_vars

\* C10 (amended): the snapshot a debounced save writes holds a body only,
\* the one typed in the edit that scheduled the save (which need not be the
\* in-memory body at flush time), stored under the key of the review id the
\* form was constructed with; it holds neither an id nor a rating.
C10_TypedBodySaved ==
    [][IsSave =>
          /\ Len(localState'.data) = 1
          /\ DOMAIN localState'.data[1] = {"reviewBody"}
          /\ localState'.data[1].reviewBody = timers[1].arg.reviewBody
          /\ localState'.data[1].reviewBody \in InputValues
          /\ localState'.id = localState.id
          /\ localState.id[1] = "AddonReview"]_vars

C10_Witness ==
    /\ lastCalls = <<"localState.save">>
    /\ localState.data = <<[reviewBody |-> "great addon"]>>
    /\ state.reviewBody = "old" /\ props.rating = 5

\* A props update of the mounted form (componentWillReceiveProps).
IsPropsUpdate ==
    /\ alive /\ alive' /\ props' = shared /\ lastCalls' = <<>>
    /\ loadPc' = loadPc /\ inputs' = inputs /\ timers' = timers
    /\ sinceInput' = sinceInput /\ inflight' = inflight /\ shared' = shared

\* The review last published carries the body now in memory.
BodyIsPublished ==
    shared.body = (IF state.reviewBody = "" THEN UNDEFINED
                                            ELSE state.reviewBody)

\* C13 (as stated): a submit that is rejected leaves the in-memory body and
\* the stored draft as they were: neither onSubmit, nor its optimistic
\* update flowing back as props, nor the rejection changes them.
C13_RejectedSubmitLeavesState ==
    [][(IsSubmit \/ IsRejected
            \/ (inflight # {} /\ IsPropsUpdate /\ BodyIsPublished)) =>
          (state' = state /\ localState' = localState)]_vars

\* C13 (amended): neither onSubmit nor the rejection changes the in-memory
\* body or the stored draft; the optimistic update flowing back as props
\* leaves the stored draft alone and the in-memory body too, but for an
\* empty body, which becomes undefined; a second submit sends the same body.
C13_RejectedSubmitLeavesDraft ==
    [][/\ (IsSubmit \/ IsRejected) =>
            (state' = state /\ localState' = localState)
       /\ (inflight # {} /\ IsPropsUpdate /\ BodyIsPublished) =>
            /\ localState' = localState
            /\ state'.reviewBody =
                   (IF state.reviewBody = "" THEN UNDEFINED
                                             ELSE state.reviewBody)]_vars

C13_Witness ==
    /\ alive /\ failed = 1 /\ inflight = {} /\ errorShown
    /\ state.reviewBody = "great addon" /\ props.body = "great addon"
    /\ localState.data = <<[reviewBody |-> "great addon"]>>

\* C14 (as stated, SpecResubmit): two submits with no body edit between
\* them invoke the remote call with the same review id, addon id and body.
C14_SamePayloadTwice ==
    \A r1, r2 \in inflight :
        r1.inputs = r2.inputs =>
            /\ r1.params.reviewId = r2.params.reviewId
            /\ r1.params.addonId = r2.params.addonId
            /\ r1.params.body = r2.params.body

\* C14 (amended, SpecResubmit): a submit changes neither the props review
\* nor the in-memory body, and when its optimistic review flows back as
\* props, the payload of a further submit (review id, addon id, rating,
\* body) and the review it would publish are what they were: two submits
\* with nothing but that props update between them send the same payload.
C14_FlowBackKeepsPayload ==
    [][/\ IsSubmit => (props' = props /\ state' = state)
       /\ (IsPropsUpdate /\ shared = [props EXCEPT !.body = shared.body]
             /\ BodyIsPublished) =>
            /\ props'.id = props.id
            /\ props'.addonId = props.addonId
            /\ props'.rating = props.rating
            /\ OrUndefined(state'.reviewBody) = OrUndefined(state.reviewBody)
            /\ [props' EXCEPT !.body = OrUndefined(state'.reviewBody)] =
                   shared]_vars

C14_Witness ==
    /\ alive /\ props = shared /\ props.body = "great addon"
    /\ \E r1, r2 \in inflight :
           /\ r1.n # r2.n /\ r1.params = r2.params
           /\ r1.params.body = "great addon"

\* C15: teardown cancels nothing: the unmounting step leaves the pending
\* load, the pending saves and the calls in flight as they are, and on the
\* unmounted component the load completion, a due save and the completion
\* of a call in flight can still run.
C15_NothingCancelled ==
    /\ [][(alive /\ ~alive') =>
             /\ loadPc' = loadPc /\ loadResult' = loadResult
             /\ timers' = timers /\ inflight' = inflight]_vars
    /\ [](~alive =>
             /\ loadPc = "pending" => ENABLED checkForStoredState
             /\ (timers # <<>> /\ timers[1].remaining = 0) =>
                    ENABLED saveState
             /\ \A req \in inflight :
                    ENABLED SubmitResolved(req) /\ ENABLED SubmitRejected(req))

C15_Witness ==
    /\ ~alive /\ props.id # UNDEFINED /\ props.addonSlug # UNDEFINED
    /\ lastCalls = <<"localState.save">> /\ saveCalls = 1
    /\ loadPc = "pending" /\ inflight # {}

\* C17: a props update sets the in-memory body to the body of the review
\* it carries, whatever was typed or recovered before.
C17_PropsBodyReplacesState ==
    [][IsPropsUpdate =>
          (state'.reviewBody = shared.body /\ props' = shared)]_vars

C17_Witness ==
    /\ alive /\ inputs = 1 /\ timers # <<>> /\ loadPc = "pending"
    /\ timers[1].arg.reviewBody = "great addon"
    /\ state.reviewBody = "old" /\ shared.body = "old"

\* C18: the load completion is applied whenever it comes: a stored state
\* replaces the in-memory body even after edits, no stored state leaves the
\* component state unchanged.
C18_LoadAppliedWheneverItCompletes ==
    [][(IsLoadApplied /\ alive) =>
          IF loadResult # <<>>
          THEN state'.reviewBody = loadResult[1].reviewBody
          ELSE state' = state]_vars

C18_Witness ==
    /\ alive /\ inputs >= 1 /\ loadPc = "done" /\ timers # <<>>
    /\ state.reviewBody = "stored" /\ shared.body = "old"

\* C19: a rating selection publishes the in-memory body (an empty one as
\* undefined) with the new rating and leaves the component state alone;
\* when that review flows back as props the in-memory body is the one from
\* before the selection, an empty one as undefined.
C19_RatingKeepsBody ==
    [][/\ lastCalls' = <<"setDenormalizedReview">> =>
            /\ shared'.body = (IF state.reviewBody = "" THEN UNDEFINED
                                                        ELSE state.reviewBody)
            /\ shared'.rating \in SelectableRatings
            /\ state' = state
       /\ (IsPropsUpdate /\ BodyIsPublished) =>
            state'.reviewBody = (IF state.reviewBody = "" THEN UNDEFINED
                                                          ELSE state.reviewBody)
      ]_vars

C19_Witness ==
    /\ alive /\ submits = 0 /\ lastCalls = <<>>
    /\ state.reviewBody = "great addon" /\ props.body = "great addon"
    /\ props.rating = 1

\* ------------------------------------------------------------------------
\* ErrorPage properties (SpecErrorPage)
\* ------------------------------------------------------------------------
\* The errorPage the boundary sees, now and after the step.
SeenErrorPage == ErrorPageProp(errorPage)
IsErrored == HasError(SeenErrorPage)
IsErrorPageRender ==
    errorPage' = errorPage /\ catches' = catches /\ resets' = resets

\* C11: a child that throws during render takes the boundary from Normal
\* to Errored once: componentDidCatch runs only when no error is recorded,
\* dispatches exactly one error record and leaves the boundary Errored;
\* re-renders of the Errored boundary return the fallback, throw nothing,
\* call componentDidCatch no more and dispatch nothing.
C11_CaughtOnce ==
    [][/\ catches' # catches =>
            /\ ~IsErrored
            /\ catches' = catches + 1
            /\ dispatches' = dispatches + 1
            /\ HasError(ErrorPageProp(errorPage'))
       /\ dispatches' # dispatches => catches' # catches
       /\ (IsErrored /\ IsErrorPageRender) =>
            /\ output'.component # "children"
            /\ thrown' = <<>>
            /\ dispatches' = dispatches
       /\ catches' <= resets' + 1]_vars

C11_Witness ==
    /\ catches = 1 /\ dispatches = 1 /\ resets = 0 /\ thrown = <<>>
    /\ children = <<[status |-> 401]>>
    /\ IsErrored /\ output.component = "NotAuthorized"

\* C12: render() returns the fallback component getErrorComponent picks
\* for the recorded status code, with the recorded error and status, if
\* and only if the errorPage it sees has hasError set; otherwise, also
\* when there is no errorPage state at all, it returns the children.
C12_FallbackIffHasError ==
    [][IsErrorPageRender =>
          /\ (output'.component # "children") <=>
                 (errorPage # <<>> /\ errorPage[1].hasError)
          /\ (errorPage # <<>> /\ errorPage[1].hasError) =>
                 /\ output'.component =
                        getErrorComponent(errorPage[1].statusCode)
                 /\ output'.status = errorPage[1].statusCode
                 /\ output'.error = errorPage[1].error
          /\ errorPage = <<>> => output' = ChildrenOutput]_vars

C12_Witness ==
    /\ errorPage # <<>> /\ IsErrored
    /\ output.component = "NotFound" /\ output.status = 404
    /\ output.error = <<[status |-> 404]>>

\* C16: the boundary leaves Errored only by a reset of state.errorPage
\* from outside: no render and no caught error clears hasError.
C16_ErroredUntilReset ==
    [][(IsErrored /\ ~HasError(ErrorPageProp(errorPage'))) =>
          (resets' = resets + 1 /\ catches' = catches
              /\ output' = output)]_vars

C16_Witness ==
    /\ resets = 1 /\ catches = 2 /\ IsErrored /\ thrown = <<>>
    /\ output.component = "ServerError"

====
